---- MODULE Spec2Model ----
(***************************************************************************)
(* Model of src/new/fuse.py: the three-way weighted fusion batch.          *)
(*                                                                         *)
(*   main: map_files x3 -> intersection of the keys -> process_fusion per  *)
(*   common id -> summary.                                                 *)
(*                                                                         *)
(* Strings (file names, ids) are sequences of one-character strings, so    *)
(* that endswith, "in", splitext and replace are computed as Python        *)
(* computes them.  Signal values are integers; the weights are kept in     *)
(* hundredths (0.20 -> 20, 0.60 -> 60), so a weighted value is in          *)
(* hundredths of a signal unit.                                            *)
(*                                                                         *)
(* A file's content is observed when pd.read_csv reads it.  Every path is  *)
(* read at most once in a run, so the content is drawn at the read.        *)
(***************************************************************************)
EXTENDS Integers, Sequences, FiniteSets, TLC

VARIABLES
    fs,          \* the three input trees: whether the folder exists, and its files in os.walk order
    pc,          \* main's position
    maps,        \* map_pos, map_phy, map_eff
    counts,      \* the "Found N files" number of each map_files call
    common_ids,  \* main's common_ids
    todo,        \* the ids the for loop still has to visit
    count,       \* main's count
    out,         \* OUTPUT_FOLDER: file name -> content, as written by this run
    calls,       \* history: the ids passed to process_fusion, in call order
    inputs,      \* history: id -> what process_fusion read and which step failed
    result       \* history: id -> the value process_fusion returned

vars == <<fs, pc, maps, counts, common_ids, todo, count, out, calls, inputs, result>>

----------------------------------------------------------------------------
(* Bounds of the model *)

MaxFiles == 2   \* files per input tree
MaxExtra == 1   \* rows beyond the floor in a drawn frame

(* Program constants *)

MinLen    == 30   \* if min_len < 30: return False
W_EFFPHYS == 60   \* 0.60, in hundredths
W_POS     == 20   \* 0.20
W_PHYSNET == 20   \* 0.20

Srcs == {"pos", "phy", "eff"}

----------------------------------------------------------------------------
(* Python string operations on character sequences *)

DOT  == <<".">>
CSV  == <<".", "c", "s", "v">>
TXT  == <<".", "t", "x", "t">>
ENSEMBLE == <<"e", "n", "s", "e", "m", "b", "l", "e">>
FILTERED == <<"_", "f", "i", "l", "t", "e", "r", "e", "d">>
TRACE    == <<"_", "t", "r", "a", "c", "e">>
CLEAN    == <<"_", "c", "l", "e", "a", "n">>
WEIGHTED_CSV == <<"_", "w", "e", "i", "g", "h", "t", "e", "d", ".", "c", "s", "v">>
GRAPH_PNG    == <<"_", "g", "r", "a", "p", "h", ".", "p", "n", "g">>

StartsAt(s, i, sub) ==
    /\ i + Len(sub) - 1 <= Len(s)
    /\ \A k \in 1..Len(sub) : s[i + k - 1] = sub[k]

\* s.endswith(suf)
EndsWith(s, suf) ==
    /\ Len(suf) <= Len(s)
    /\ StartsAt(s, Len(s) - Len(suf) + 1, suf)

\* sub in s
Contains(s, sub) == \E i \in 1..(Len(s) - Len(sub) + 1) : StartsAt(s, i, sub)

\* s.replace(old, ""): left to right, non-overlapping, a single pass
RECURSIVE ReplaceFrom(_, _, _)
ReplaceFrom(s, i, old) ==
    IF i > Len(s) THEN <<>>
    ELSE IF StartsAt(s, i, old) THEN ReplaceFrom(s, i + Len(old), old)
    ELSE <<s[i]>> \o ReplaceFrom(s, i + 1, old)

\* (the string is bound once, as a value, before the scan)
Replace(s, old) == CHOOSE r \in {ReplaceFrom(t, 1, old) : t \in {s}} : TRUE

\* os.path.splitext(p)[0] of a name without separators: cut at the last
\* dot, unless only dots precede it
Splitext(p) ==
    LET dots == {i \in 1..Len(p) : p[i] = "."}
        d    == IF dots = {} THEN 0 ELSE CHOOSE i \in dots : \A j \in dots : j <= i
    IN  IF d > 0 /\ \E k \in 1..(d - 1) : p[k] # "."
        THEN SubSeq(p, 1, d - 1)
        ELSE p

----------------------------------------------------------------------------
(* map_files *)

\* (mutation of Eligible: the extension is not looked at)
EligibleAnyExt(file) == ~Contains(file, ENSEMBLE)

\* if file.endswith(".csv") and "ensemble" not in file
Eligible(file) == EndsWith(file, CSV) /\ ~Contains(file, ENSEMBLE)

\* (mutation of CleanId: "_trace" is not removed)
CleanIdKeepTrace(file) == Replace(Replace(Splitext(file), FILTERED), CLEAN)

\* vid_id = splitext(file)[0] with "_filtered", "_trace", "_clean" removed
CleanId(file) == Replace(Replace(Replace(Splitext(file), FILTERED), TRACE), CLEAN)

\* os.path.join(root, file)
PathJoin(root, file) == [root |-> root, file |-> file]

EmptyMap == <<>>

\* (mutation of SetItem: an existing key is kept)
FirstWins(file_map, vid_id, path) ==
    IF vid_id \in DOMAIN file_map THEN file_map ELSE (vid_id :> path) @@ file_map

\* file_map[vid_id] = path
SetItem(file_map, vid_id, path) == (vid_id :> path) @@ file_map

\* the two nested for loops over os.walk, from entry i on
RECURSIVE WalkFrom(_, _, _, _)
WalkFrom(walk, i, file_map, n) ==
    IF i > Len(walk) THEN [file_map |-> file_map, count |-> n]
    ELSE IF Eligible(walk[i].file)
         THEN WalkFrom(walk, i + 1,
                       SetItem(file_map, CleanId(walk[i].file),
                               PathJoin(walk[i].root, walk[i].file)),
                       n + 1)
         ELSE WalkFrom(walk, i + 1, file_map, n)

\* map_files(root_folder): the mapping, and the count it prints
map_files(tree) ==
    IF ~tree.exists THEN [file_map |-> EmptyMap, count |-> 0]
    ELSE WalkFrom(tree.walk, 1, EmptyMap, 0)

----------------------------------------------------------------------------
(* process_fusion *)

\* A file as pd.read_csv finds it: unparseable (read_csv raises), or a
\* DataFrame, a sequence of columns.  A cell is a number, a non-numeric
\* string or a missing value.
Num(v) == [k |-> "num", v |-> v]
Str    == [k |-> "str", v |-> 0]
NaN    == [k |-> "nan", v |-> 0]

Unreadable == [ok |-> FALSE, df |-> <<>>]

\* pd.to_numeric(col, errors='coerce')
to_numeric(col) == [i \in DOMAIN col |-> IF col[i].k = "num" THEN col[i] ELSE NaN]

\* (mutation of fillna: the rows holding NaN are dropped)
dropna(col, x) == SelectSeq(col, LAMBDA c : c.k # "nan")

\* col.fillna(x)
fillna(col, x) == [i \in DOMAIN col |-> IF col[i].k = "nan" THEN Num(x) ELSE col[i]]

\* col.values of a numeric column without NaN
values(col) == [i \in DOMAIN col |-> col[i].v]

\* df.iloc[:, -1] and df.iloc[:, 0]
LastColumn(df)  == df[Len(df)]
FirstColumn(df) == df[1]

\* pd.to_numeric(df.iloc[:, -1], errors='coerce').fillna(0).values
Signal(df) == values(fillna(to_numeric(LastColumn(df)), 0))

Min3(a, b, c) ==
    IF a <= b /\ a <= c THEN a ELSE IF b <= c THEN b ELSE c

\* (mutation of TooShort: the floor itself is refused)
TooShortLe(min_len) == min_len <= MinLen

\* if min_len < 30: return False
TooShort(min_len) == min_len < MinLen

\* (mutation of Trim: the last n elements)
TrimTail(s, n) == SubSeq(s, Len(s) - n + 1, Len(s))

\* s[:n], n <= len(s)
Trim(s, n) == SubSeq(s, 1, n)

\* (mutation of WeightedSignal: the POS and EfficientPhys weights exchanged)
WeightedSwapped(s_pos, s_phy, s_eff) ==
    [i \in DOMAIN s_pos |->
        (s_pos[i] * W_EFFPHYS) + (s_phy[i] * W_PHYSNET) + (s_eff[i] * W_POS)]

\* (s_pos * W_POS) + (s_phy * W_PHYSNET) + (s_eff * W_EFFPHYS)
WeightedSignal(s_pos, s_phy, s_eff) ==
    [i \in DOMAIN s_pos |->
        (s_pos[i] * W_POS) + (s_phy[i] * W_PHYSNET) + (s_eff[i] * W_EFFPHYS)]

RECURSIVE SumSeq(_)
SumSeq(s) == IF s = <<>> THEN 0 ELSE Head(s) + SumSeq(Tail(s))

\* np.mean(weighted_signal), kept as a fraction
Mean(s) == [num |-> SumSeq(s), den |-> Len(s)]

\* the steps whose failure is the environment's: DataFrame.to_csv, plt.savefig
\* (a failing step is taken to fail before it creates its file)
Faults == {"none", "to_csv", "savefig"}

CsvName(vid_id) == vid_id \o WEIGHTED_CSV
PngName(vid_id) == vid_id \o GRAPH_PNG

\* process_fusion(vid_id, p_pos, p_phy, p_eff), with c_* the contents found at
\* the three paths; returns the value returned and the files written.
process_fusion(vid_id, c_pos, c_phy, c_eff, fault) ==
    IF ~(c_pos.ok /\ c_phy.ok /\ c_eff.ok)
    THEN [ret |-> FALSE, written |-> EmptyMap]          \* read_csv raised
    ELSE
    LET s_pos0  == Signal(c_pos.df)
        s_phy0  == Signal(c_phy.df)
        s_eff0  == Signal(c_eff.df)
        min_len == Min3(Len(s_pos0), Len(s_phy0), Len(s_eff0))
    IN  IF TooShort(min_len)
        THEN [ret |-> FALSE, written |-> EmptyMap]
        ELSE
        LET s_pos     == Trim(s_pos0, min_len)
            s_phy     == Trim(s_phy0, min_len)
            s_eff     == Trim(s_eff0, min_len)
            time_axis == SubSeq(FirstColumn(c_pos.df), 1, min_len)
            weighted_signal == WeightedSignal(s_pos, s_phy, s_eff)
            csv == [Time_Sec |-> time_axis, Weighted_Value |-> weighted_signal]
            png == [x |-> time_axis, y |-> weighted_signal,
                    avg_val |-> Mean(weighted_signal)]
        IN  IF fault = "to_csv"
            THEN [ret |-> FALSE, written |-> EmptyMap]
            ELSE IF fault = "savefig"
            THEN [ret |-> FALSE, written |-> (CsvName(vid_id) :> csv)]
            ELSE [ret |-> TRUE,
                  written |-> (CsvName(vid_id) :> csv) @@ (PngName(vid_id) :> png)]

----------------------------------------------------------------------------
(* main *)

\* (mutation of CommonIds: ids of any source)
AnyIds(m) == (DOMAIN m["pos"]) \cup (DOMAIN m["phy"]) \cup (DOMAIN m["eff"])

\* set(map_pos.keys()) & set(map_phy.keys()) & set(map_eff.keys())
CommonIds(m) == (DOMAIN m["pos"]) \cap (DOMAIN m["phy"]) \cap (DOMAIN m["eff"])

\* (mutation of Remaining: the loop is left at the first failure)
StopOnFailure(ids, vid_id, ok) == IF ok THEN ids \ {vid_id} ELSE {}

\* the for loop goes on to the next id, whatever process_fusion returned
Remaining(ids, vid_id, ok) == ids \ {vid_id}

\* map_pos = map_files(PATH_POS), and so on
Scan(src, at, next) ==
    /\ pc = at
    /\ LET r == map_files(fs[src])
       IN  /\ maps' = [maps EXCEPT ![src] = r.file_map]
           /\ counts' = [counts EXCEPT ![src] = r.count]
    /\ pc' = next
    /\ UNCHANGED <<fs, common_ids, todo, count, out, calls, inputs, result>>

ScanPos == Scan("pos", "scan_pos", "scan_phy")
ScanPhy == Scan("phy", "scan_phy", "scan_eff")
ScanEff == Scan("eff", "scan_eff", "match")

\* common_ids = ...; if not common_ids: return; count = 0
Match ==
    /\ pc = "match"
    /\ common_ids' = CommonIds(maps)
    /\ IF common_ids' = {}
       THEN pc' = "returned" /\ todo' = {}
       ELSE pc' = "loop" /\ todo' = common_ids'
    /\ count' = 0
    /\ UNCHANGED <<fs, maps, counts, out, calls, inputs, result>>

\* one iteration of for i, vid_id in enumerate(common_ids): a set is
\* visited in no particular order.  Disk is the set of contents the three
\* paths may hold, as triples (POS, PhysNet, EfficientPhys).
Fuse(Disk) ==
    /\ pc = "loop"
    /\ todo # {}
    /\ \E vid_id \in todo, c \in Disk, fault \in Faults :
         LET c_pos == c[1]
             c_phy == c[2]
             c_eff == c[3]
             r == process_fusion(vid_id, c_pos, c_phy, c_eff, fault)
         IN  /\ out' = r.written @@ out
             /\ count' = IF r.ret THEN count + 1 ELSE count
             /\ todo' = Remaining(todo, vid_id, r.ret)
             /\ calls' = Append(calls, vid_id)
             /\ inputs' = (vid_id :> [p_pos |-> maps["pos"][vid_id],
                                      p_phy |-> maps["phy"][vid_id],
                                      p_eff |-> maps["eff"][vid_id],
                                      pos |-> c_pos, phy |-> c_phy, eff |-> c_eff,
                                      fault |-> fault]) @@ inputs
             /\ result' = (vid_id :> r.ret) @@ result
    /\ UNCHANGED <<fs, pc, maps, counts, common_ids>>

\* the loop is over: the summary is printed
Finish ==
    /\ pc = "loop"
    /\ todo = {}
    /\ pc' = "done"
    /\ UNCHANGED <<fs, maps, counts, common_ids, todo, count, out, calls, inputs, result>>

----------------------------------------------------------------------------
(* The environment: input trees and file contents *)

\* the files of a tree in os.walk order: no path twice, a directory's files together
IsWalk(w) ==
    /\ \A i, j \in DOMAIN w : i # j => w[i] # w[j]
    /\ \A i, j, k \in DOMAIN w : i < j /\ j < k /\ w[i].root = w[k].root
                                  => w[j].root = w[i].root

Walks(entries, n) ==
    {w \in UNION {[1..k -> entries] : k \in 0..n} : IsWalk(w)}

Entries(roots, names) == {[root |-> r, file |-> f] : r \in roots, f \in names}

MissingTree == [exists |-> FALSE, walk |-> <<>>]
Tree(w)     == [exists |-> TRUE, walk |-> w]

\* a two-column frame of n rows: time v0*100 + i, sample v0 + i at row i
BadKinds == {"none", "first_str", "last_nan"}

Frame(n, v0, bad) ==
    [ok |-> TRUE,
     df |-> << [i \in 1..n |-> v0 * 100 + i],
               [i \in 1..n |->
                   IF bad = "first_str" /\ i = 1 THEN Str
                   ELSE IF bad = "last_nan" /\ i = n THEN NaN
                   ELSE Num(v0 + i)] >>]

RichFrames ==
    {Unreadable} \cup
    {Frame(n, v0, bad) : n \in (MinLen - 1)..(MinLen + MaxExtra),
                         v0 \in {0, 1}, bad \in BadKinds}

RichDisk == RichFrames \X RichFrames \X RichFrames

Short == Frame(MinLen - 1, 0, "none")
Good  == Frame(MinLen, 1, "first_str")

MainDisk ==
    {<<Good, Good, Good>>, <<Unreadable, Good, Good>>, <<Good, Short, Good>>}

A == <<"a">>
B == <<"b">>

MainNames == {A \o CSV, B \o TRACE \o CSV, B \o TXT}

MainTrees == {MissingTree} \cup {Tree(w) : w \in Walks(Entries({"."}, MainNames), MaxFiles)}

Start ==
    /\ pc = "scan_pos"
    /\ maps = [s \in Srcs |-> EmptyMap]
    /\ counts = [s \in Srcs |-> 0]
    /\ common_ids = {}
    /\ todo = {}
    /\ count = 0
    /\ out = EmptyMap
    /\ calls = <<>>
    /\ inputs = EmptyMap
    /\ result = EmptyMap

----------------------------------------------------------------------------
(* The batch over small trees *)

Init ==
    /\ fs \in [Srcs -> MainTrees]
    /\ Start

Next == ScanPos \/ ScanPhy \/ ScanEff \/ Match \/ Fuse(MainDisk) \/ Finish

Spec == Init /\ [][Next]_vars

\* main is one sequential procedure: it runs until it returns
FairSpec == Spec /\ WF_vars(Next)

----------------------------------------------------------------------------
(* map_files over the suffix variants of one recording *)

Suffixes == {<<>>, FILTERED, TRACE, CLEAN}

BaseNames ==
    { A,
      <<>>,
      DOT,
      A \o CLEAN,
      A \o ENSEMBLE,
      A \o <<"_", "c", "l">> \o TRACE \o <<"e", "a", "n">>,
      A \o <<"_", "f", "i", "l">> \o CLEAN \o <<"t", "e", "r", "e", "d">> }

Variants(foo) == {foo \o suf \o CSV : suf \in Suffixes}

InitMap ==
    /\ \E foo \in BaseNames :
         \E w \in Walks(Entries({".", "sub"}, Variants(foo)), MaxFiles),
            f_phy \in Variants(foo), f_eff \in {foo \o CSV, foo \o CLEAN \o CSV} :
            fs = [s \in Srcs |->
                    IF s = "pos" THEN Tree(w)
                    ELSE IF s = "phy" THEN Tree(<<[root |-> ".", file |-> f_phy]>>)
                    ELSE Tree(<<[root |-> ".", file |-> f_eff]>>)]
    /\ Start

NextMap == ScanPos \/ ScanPhy \/ ScanEff \/ Match \/ Fuse({<<Good, Good, Good>>}) \/ Finish

SpecMap == InitMap /\ [][NextMap]_vars

----------------------------------------------------------------------------
(* process_fusion over drawn frames: one recording, present in all trees *)

InitFuse ==
    /\ \E f \in {A \o CSV, A \o CLEAN \o CSV} :
         fs = [s \in Srcs |->
                 Tree(<<[root |-> ".", file |-> IF s = "eff" THEN f ELSE A \o CSV]>>)]
    /\ Start

NextFuse == ScanPos \/ ScanPhy \/ ScanEff \/ Match \/ Fuse(RichDisk) \/ Finish

SpecFuse == InitFuse /\ [][NextFuse]_vars

----------------------------------------------------------------------------
(* Claims *)

\* the sources whose map_files call has returned
ScannedSrcs ==
    CASE pc = "scan_pos" -> {}
      [] pc = "scan_phy" -> {"pos"}
      [] pc = "scan_eff" -> {"pos", "phy"}
      [] OTHER           -> Srcs

\* the ids that are keys of all three maps
InAllThree == {k \in DOMAIN maps["pos"] : k \in DOMAIN maps["phy"] /\ k \in DOMAIN maps["eff"]}

\* a cell's coerced value: the number, or 0 for a cell that is no number
Coerced(cell) == IF cell.k = "num" THEN cell.v ELSE 0

SignalColumn(c) == c.df[Len(c.df)]
TimeColumn(c)   == c.df[1]

Readable(in) == in.pos.ok /\ in.phy.ok /\ in.eff.ok

MinOf(S) == CHOOSE n \in S : \A m \in S : n <= m

MinRows(in) ==
    MinOf({Len(SignalColumn(in.pos)), Len(SignalColumn(in.phy)), Len(SignalColumn(in.eff))})

\* 0.2*pos[i] + 0.2*physnet[i] + 0.6*effphys[i], in hundredths
Expected(in, i) ==
    20 * Coerced(SignalColumn(in.pos)[i])
    + 20 * Coerced(SignalColumn(in.phy)[i])
    + 60 * Coerced(SignalColumn(in.eff)[i])

HasCsv(id) == CsvName(id) \in DOMAIN out
HasPng(id) == PngName(id) \in DOMAIN out

\* C1: for every id on which process_fusion succeeds and every position i
\* below min_len, the Weighted_Value written at row i is
\* 0.2*pos[i] + 0.2*physnet[i] + 0.6*effphys[i] of the coerced signal
\* columns, paired by position.
C1_WeightedSum ==
    \A id \in DOMAIN result :
        result[id] =>
            /\ HasCsv(id)
            /\ \A i \in 1..MinRows(inputs[id]) :
                  /\ i \in DOMAIN out[CsvName(id)].Weighted_Value
                  /\ out[CsvName(id)].Weighted_Value[i] = Expected(inputs[id], i)

C1_Witness ==
    \E id \in DOMAIN result :
        /\ result[id]
        /\ Readable(inputs[id])
        /\ Coerced(SignalColumn(inputs[id].pos)[2]) # Coerced(SignalColumn(inputs[id].eff)[2])
        /\ Len(SignalColumn(inputs[id].pos)) # Len(SignalColumn(inputs[id].phy))

\* C2: when the three inputs have at least 30 common rows, the written
\* output (time column and weighted-value column) has exactly
\* min(len(pos), len(physnet), len(effphys)) rows, and row i comes from
\* element i of each input: the time of POS row i, the signals of row i.
C2_OutputIsPrefix ==
    \A id \in DOMAIN inputs :
        LET in == inputs[id] IN
        /\ (Readable(in) /\ MinRows(in) >= 30 /\ in.fault = "none") => HasCsv(id)
        /\ HasCsv(id) =>
             LET f == out[CsvName(id)] IN
             /\ Len(f.Time_Sec) = MinRows(in)
             /\ Len(f.Weighted_Value) = MinRows(in)
             /\ \A i \in 1..MinRows(in) :
                   /\ f.Time_Sec[i] = TimeColumn(in.pos)[i]
                   /\ f.Weighted_Value[i] = Expected(in, i)

C2_Witness ==
    \E id \in DOMAIN inputs :
        /\ HasCsv(id)
        /\ Len(SignalColumn(inputs[id].pos)) > MinRows(inputs[id])
        /\ Len(SignalColumn(inputs[id].phy)) = MinRows(inputs[id])
        /\ Len(SignalColumn(inputs[id].eff)) > MinRows(inputs[id])
        /\ TimeColumn(inputs[id].pos) # TimeColumn(inputs[id].phy)

\* C3: when the shortest of the three signals has fewer than 30 rows,
\* process_fusion returns False before any write: no <id>_weighted.csv, no
\* <id>_graph.png, and main does not count the id; at exactly 30 rows the
\* id is not skipped (it is fused, unless a write itself fails).
C3_ShortIsSkipped ==
    \A id \in DOMAIN inputs :
        LET in == inputs[id] IN
        Readable(in) =>
            /\ MinRows(in) < 30 =>
                  /\ ~result[id]
                  /\ ~HasCsv(id)
                  /\ ~HasPng(id)
                  /\ count <= Cardinality(DOMAIN inputs \ {id})
            /\ (MinRows(in) = 30 /\ in.fault = "none") =>
                  /\ result[id]
                  /\ HasCsv(id)
                  /\ HasPng(id)

C3_Witness ==
    /\ pc = "done"
    /\ count = 0
    /\ \E id \in DOMAIN inputs :
          /\ Readable(inputs[id])
          /\ MinRows(inputs[id]) = 29
          /\ Len(SignalColumn(inputs[id].pos)) = 31

\* C6: a non-numeric cell (unparseable or missing) of an input's signal
\* column counts as 0 in the weighted sum at its position; the row is kept
\* and the id does not fail because of the cell.
C6_InvalidCellIsZero ==
    \A id \in DOMAIN inputs :
        LET in == inputs[id]
            cols == <<SignalColumn(in.pos), SignalColumn(in.phy), SignalColumn(in.eff)>>
            w == <<20, 20, 60>>
        IN  (Readable(in) /\ MinRows(in) >= 30 /\ in.fault = "none") =>
               /\ result[id]
               /\ HasCsv(id)
               /\ Len(out[CsvName(id)].Weighted_Value) = MinRows(in)
               /\ \A i \in 1..MinRows(in), s \in 1..3 :
                     cols[s][i].k # "num" =>
                        LET others == {t \in 1..3 : t # s}
                            t1 == CHOOSE t \in others : TRUE
                            t2 == CHOOSE t \in others : t # t1
                        IN  out[CsvName(id)].Weighted_Value[i] =
                               w[t1] * Coerced(cols[t1][i]) + w[t2] * Coerced(cols[t2][i])

C6_Witness ==
    \E id \in DOMAIN inputs :
        /\ result[id]
        /\ Readable(inputs[id])
        /\ SignalColumn(inputs[id].pos)[1].k = "str"
        /\ SignalColumn(inputs[id].eff)[30].k = "nan"
        /\ SignalColumn(inputs[id].phy)[1].k = "num"

\* a file an input tree offers to the fusion: a .csv that is no ensemble file
IsInputCsv(file) == EndsWith(file, CSV) /\ ~Contains(file, ENSEMBLE)

NoInput(tree) == ~tree.exists \/ \A i \in DOMAIN tree.walk : ~IsInputCsv(tree.walk[i].file)

\* C4: main passes to process_fusion only ids that are keys of all three
\* maps; an id of only one or two maps is never passed, and no output file
\* is written for it.
C4_OnlyCommonIds ==
    /\ \A k \in DOMAIN calls : calls[k] \in InAllThree
    /\ todo \subseteq InAllThree
    /\ \A f \in DOMAIN out : \E id \in InAllThree : f = CsvName(id) \/ f = PngName(id)

C4_Witness ==
    /\ pc = "done"
    /\ \E id \in DOMAIN result : result[id]
    /\ \E k \in DOMAIN maps["pos"] : k \in DOMAIN maps["phy"] /\ k \notin DOMAIN maps["eff"]

\* C8: when one of the three input folders is missing or holds no eligible
\* .csv file, map_files returns an empty mapping for it, and main returns
\* without calling process_fusion and without writing any output file.
C8_EmptySourceNoOutput ==
    /\ \A src \in ScannedSrcs : NoInput(fs[src]) => DOMAIN maps[src] = {}
    /\ (\E src \in Srcs : NoInput(fs[src])) =>
          /\ calls = <<>>
          /\ DOMAIN out = {}
          /\ pc \in {"scan_pos", "scan_phy", "scan_eff", "match", "returned"}

C8_Witness ==
    /\ pc = "returned"
    /\ ~fs["pos"].exists
    /\ fs["phy"].exists /\ fs["phy"].walk # <<>> /\ NoInput(fs["phy"])
    /\ DOMAIN maps["eff"] # {}

\* C10: after main has finished, every common id has either both of its
\* output files and was counted as processed, or neither of them and was
\* reported as failed.
C10_BothOrNeither ==
    pc = "done" =>
        \A id \in common_ids :
            \/ HasCsv(id) /\ HasPng(id) /\ result[id]
            \/ ~HasCsv(id) /\ ~HasPng(id) /\ ~result[id]

\* the number of times id was passed to process_fusion
Attempts(id) == Cardinality({k \in DOMAIN calls : calls[k] = id})

\* C7: a failure on one id never stops the batch: every failure inside
\* process_fusion becomes a False result, main attempts each common id
\* exactly once, eventually terminates, and reports as count the number of
\* ids for which process_fusion returned True.
C7_BatchContinues ==
    /\ [](\A id \in common_ids : Attempts(id) <= 1)
    /\ [](pc = "done" =>
            /\ \A id \in common_ids : Attempts(id) = 1 /\ id \in DOMAIN result
            /\ count = Cardinality({id \in common_ids : result[id]}))
    /\ <>(pc \in {"done", "returned"})

C7_Witness ==
    /\ pc = "done"
    /\ Cardinality(common_ids) = 2
    /\ count = 1
    /\ ~result[calls[1]]
    /\ result[calls[2]]

\* the eligible entries of a walk
InputIndexes(w) == {i \in DOMAIN w : IsInputCsv(w[i].file)}

\* C9: when several files of one tree normalize to the same id, the mapping
\* holds exactly one path for it, that of the last such file in walk order,
\* and the reported count is the number of files, not of keys.
C9_LastWriteWins ==
    \A src \in ScannedSrcs :
        fs[src].exists =>
            LET w == fs[src].walk
                E == InputIndexes(w)
            IN  /\ counts[src] = Cardinality(E)
                /\ DOMAIN maps[src] = {CleanId(w[i].file) : i \in E}
                /\ \A i \in E :
                      (\A j \in E : j > i => CleanId(w[j].file) # CleanId(w[i].file))
                         => maps[src][CleanId(w[i].file)] = [root |-> w[i].root, file |-> w[i].file]

C9_Witness ==
    /\ "pos" \in ScannedSrcs
    /\ counts["pos"] = 2
    /\ Cardinality(DOMAIN maps["pos"]) = 1
    /\ fs["pos"].walk[1].file # fs["pos"].walk[2].file

\* a name made of dots only (the empty name included)
OnlyDots(foo) == \A i \in DOMAIN foo : foo[i] = "."

TokenFree(foo) ==
    ~Contains(foo, FILTERED) /\ ~Contains(foo, TRACE) /\ ~Contains(foo, CLEAN)

\* the scanned sources that hold a suffix variant of foo
Holding(foo) ==
    {src \in ScannedSrcs :
        \E i \in DOMAIN fs[src].walk : fs[src].walk[i].file \in Variants(foo)}

====
